---- MODULE Spec2Model ----
(***************************************************************************)
(* A model of the risk-adjusted decision core of BreadBot:                 *)
(*   util/risk_management.py  StopLoss, TrailingStop, PositionSizing,      *)
(*                            EnhancedRiskManagement                       *)
(*   bot.py                   BreadBot.execute_trade, execute_order,       *)
(*                            start_trading                                *)
(*                                                                         *)
(* Numbers.  Python floats are modelled by exact rationals.  A fraction    *)
(* given in the code as a decimal (0.2, 0.05, 0.1) is held in percent      *)
(* (20, 5, 10); a quotient is held as a pair <<num, den>> with den # 0,    *)
(* and compared by cross-multiplication.                                   *)
(***************************************************************************)
EXTENDS Integers, Sequences, FiniteSets, TLC

VARIABLES
    \* ---- EnhancedRiskManagement object (risk_management.py:691-725)
    account_balance,    \* self.account_balance
    high_water_mark,    \* self.high_water_mark
    supplied,           \* history: every new_balance passed to update_balance
    last_check,         \* history: the last check_drawdown call, what it
                        \* evaluated and what it returned
    \* ---- TrailingStop object (risk_management.py:49-83)
    trail_percent,      \* self.trail_percent, in percent
    highest_price,      \* self.highest_price
    ts_calls,           \* history: the update_trailing_stop calls, each with
                        \* its price, whether it raised, and the stop returned
    \* ---- StopLoss.check_stop_loss, one call (risk_management.py:15-47)
    threshold,          \* self.threshold, in percent
    sl_args,            \* <<current_price, entry_price>>
    sl_result,          \* "none" before the call, then "True", "False", "ValueError"
    \* ---- PositionSizing.calculate_trade_size, one call (risk_management.py:85-117)
    risk_per_trade,     \* self.risk_per_trade, in percent
    sizing_max_drawdown,\* self.max_drawdown, in percent
    ps_args,            \* <<account_balance, stop_loss_price>>
    ps_result,          \* [status, size]: "none" before the call, then "value"
                        \* with the quotient returned, or "ZeroDivisionError"
    \* ---- BreadBot object (bot.py:37-329), one exchange configured
    wallets,            \* self.wallets[exchange]: [kind, balance]
    exchanges,          \* self.exchanges[exchange]: [paper_trading]
    pc,                 \* where start_trading is: "idle", "loop", "reversal",
                        \* "momentum", "profit_target", "returned", "halted",
                        \* "crashed"
    next_symbol,        \* index in GDATA["symbols"] of the next pair of the loop
    orders,             \* history: the orders handed to the execution sink
    position,           \* per symbol, the position the accepted orders imply
    last_cycle,         \* history: the last execute_trade / execute_order call
    calls,              \* number of execute_trade / execute_order calls made
                        \* from outside start_trading
    \* ---- the indicators and the signal evaluator, one call
    ind_call            \* history: the call made, its arguments and what it
                        \* returned or raised

ermVars == <<account_balance, high_water_mark, supplied, last_check>>
tsVars == <<trail_percent, highest_price, ts_calls>>
slVars == <<threshold, sl_args, sl_result>>
psVars == <<risk_per_trade, sizing_max_drawdown, ps_args, ps_result>>

botVars == <<wallets, exchanges, pc, next_symbol, orders, position, last_cycle, calls>>

indVars == <<ind_call>>

vars == <<ermVars, tsVars, slVars, psVars, botVars, indVars>>

----------------------------------------------------------------------------
(* Arithmetic helpers: Python's max/min and float quotients.               *)

Max(a, b) == IF a >= b THEN a ELSE b

Min(a, b) == IF a <= b THEN a ELSE b

Abs(a) == IF a < 0 THEN 0 - a ELSE a

RECURSIVE Gcd(_, _)
Gcd(a, b) == IF b = 0 THEN a ELSE Gcd(b, a % b)

\* a quotient n/d, d # 0, in lowest terms with the sign carried by the
\* numerator
Norm(q) ==
    LET g == Gcd(Abs(q[1]), Abs(q[2]))
        s == IF q[2] < 0 THEN 0 - 1 ELSE 1
    IN <<(s * q[1]) \div g, (s * q[2]) \div g>>

\* q <= r for two quotients
RatLeq(q, r) == Norm(q)[1] * Norm(r)[2] <= Norm(r)[1] * Norm(q)[2]

RatEq(q, r) == Norm(q) = Norm(r)

RatLt(q, r) == Norm(q)[1] * Norm(r)[2] < Norm(r)[1] * Norm(q)[2]

RatAdd(q, r) == Norm(<<q[1] * r[2] + r[1] * q[2], q[2] * r[2]>>)

RatSub(q, r) == Norm(<<q[1] * r[2] - r[1] * q[2], q[2] * r[2]>>)

RatMul(q, r) == Norm(<<Norm(q)[1] * Norm(r)[1], Norm(q)[2] * Norm(r)[2]>>)

\* q / r, r # 0
RatDiv(q, r) == Norm(<<Norm(q)[1] * Norm(r)[2], Norm(q)[2] * Norm(r)[1]>>)

\* a percentage as a quotient
Pct(p) == <<p, 100>>

RECURSIVE SeqMax(_)
SeqMax(s) == IF Len(s) = 1 THEN s[1] ELSE Max(s[1], SeqMax(Tail(s)))

----------------------------------------------------------------------------
(* EnhancedRiskManagement                                                  *)

\* bot.py:74  EnhancedRiskManagement(max_drawdown=0.2, ..., account_balance=100000)
max_drawdown == 20
initial_balance == 100000

\* the balances a venue may report
Balances == {0, 79000, 80000, 90000, 95000, 100000, 110000}

MaxUpdates == 3

NoCheck == [at |-> 0 - 1, drawdown |-> <<0, 1>>, ok |-> TRUE]

\* risk_management.py:692-705
ERM_New ==
    /\ account_balance = initial_balance
    /\ high_water_mark = initial_balance
    /\ supplied = <<>>
    /\ last_check = NoCheck

\* Mutant: the mark follows the balance down.
NewHighWaterMark_Follow(hwm, new_balance) == new_balance

\* Mutant: min in place of max.
NewHighWaterMark_Min(hwm, new_balance) == Min(hwm, new_balance)

\* risk_management.py:715
NewHighWaterMark(hwm, new_balance) == Max(hwm, new_balance)

update_balance(new_balance) ==
    /\ Len(supplied) < MaxUpdates
    /\ account_balance' = new_balance
    /\ high_water_mark' = NewHighWaterMark(high_water_mark, new_balance)
    /\ supplied' = Append(supplied, new_balance)
    /\ UNCHANGED last_check

\* risk_management.py:724
Drawdown(hwm, balance) == <<hwm - balance, hwm>>

\* Mutant: a drawdown equal to the limit already halts.
WithinLimit_Strict(drawdown) ==
    ~ RatLeq(Pct(max_drawdown), drawdown)

\* risk_management.py:725   drawdown <= self.max_drawdown
WithinLimit(drawdown) == RatLeq(drawdown, Pct(max_drawdown))

\* Mutant: the drawdown is the one of the balance before the last update.
DrawdownRead_Stale(hwm, balance) ==
    IF Len(supplied) >= 2
    THEN Drawdown(hwm, supplied[Len(supplied) - 1])
    ELSE Drawdown(hwm, initial_balance)

\* risk_management.py:724: the fields read are the current ones
DrawdownRead(hwm, balance) == Drawdown(hwm, balance)

\* The high-water mark is never 0 here (it is at least initial_balance), so
\* the division of line 724 is defined; the guard states it.
check_drawdown ==
    /\ high_water_mark # 0
    /\ last_check.at # Len(supplied)
    /\ LET drawdown == DrawdownRead(high_water_mark, account_balance)
       IN last_check' = [at |-> Len(supplied),
                         drawdown |-> drawdown,
                         ok |-> WithinLimit(drawdown)]
    /\ UNCHANGED <<account_balance, high_water_mark, supplied>>

----------------------------------------------------------------------------
(* TrailingStop                                                            *)

\* float("-inf") (risk_management.py:67): below every price of the model
NegInf == 0 - 1000000

\* the prices a caller may pass, a negative one included
Prices == {0 - 5, 0, 90, 100, 110}

\* trail_percent values the constructor accepts (0 < trail_percent < 1)
TrailPercents == {10, 20, 50}

MaxCalls == 3

\* risk_management.py:63-67
TS_New(tp) ==
    /\ tp > 0 /\ tp < 100
    /\ trail_percent = tp
    /\ highest_price = NegInf
    /\ ts_calls = <<>>

\* no TrailingStop object is under study
TS_Idle == TS_New(10)

\* Mutant: the highest price is overwritten by the current one.
NewHighest_Overwrite(highest, current_price) == current_price

\* risk_management.py:82
NewHighest(highest, current_price) == Max(highest, current_price)

\* Mutant: the stop trails the current price, not the highest one.
StopPrice_OfCurrent(highest, current_price, tp) == current_price * (100 - tp)

\* risk_management.py:83  highest_price * (1 - trail_percent), in hundredths
StopPrice(highest, current_price, tp) == highest * (100 - tp)

\* Mutant: highest_price is assigned before the price is tested.
HighestAfterRaise_Assigned(highest, current_price) == Max(highest, current_price)

\* risk_management.py:79-80: the ValueError is raised before the assignment
\* of line 82, so the failed call leaves highest_price as it was
HighestAfterRaise(highest, current_price) == highest

\* risk_management.py:69-83
update_trailing_stop(current_price) ==
    /\ Len(ts_calls) < MaxCalls
    /\ IF current_price < 0
       THEN /\ ts_calls' = Append(ts_calls,
                  [price |-> current_price, raised |-> TRUE, stop |-> 0])
            /\ highest_price' = HighestAfterRaise(highest_price, current_price)
       ELSE LET h == NewHighest(highest_price, current_price)
            IN /\ highest_price' = h
               /\ ts_calls' = Append(ts_calls,
                     [price |-> current_price, raised |-> FALSE,
                      stop |-> StopPrice(h, current_price, trail_percent)])
    /\ UNCHANGED trail_percent

\* the calls that returned a stop, in order
RECURSIVE Returned(_)
Returned(cs) ==
    IF cs = <<>> THEN <<>>
    ELSE IF cs[1].raised THEN Returned(Tail(cs))
         ELSE <<cs[1]>> \o Returned(Tail(cs))

----------------------------------------------------------------------------
(* StopLoss.check_stop_loss                                                *)

\* prices in cents: 95.01 is 9501
StopLossPrices == {0 - 1, 0, 9400, 9500, 9501, 10000, 20000}

\* thresholds the constructor accepts (0 < threshold < 1)
Thresholds == {5, 10, 50}

\* risk_management.py:28-31
SL_New(th) ==
    /\ th > 0 /\ th < 100
    /\ threshold = th

SL_Idle ==
    /\ SL_New(5)
    /\ sl_args = <<0, 0>>
    /\ sl_result = "none"

\* Mutant: the stop triggers only strictly below the stop price.
StopLossBreached_Strict(current_price, entry_price, th) ==
    current_price * 100 < entry_price * (100 - th)

\* risk_management.py:47  current_price <= entry_price * (1 - self.threshold)
StopLossBreached(current_price, entry_price, th) ==
    current_price * 100 <= entry_price * (100 - th)

\* risk_management.py:33-47
check_stop_loss ==
    /\ sl_result = "none"
    /\ LET current_price == sl_args[1]
           entry_price == sl_args[2]
       IN sl_result' =
            IF current_price < 0 \/ entry_price < 0 THEN "ValueError"
            ELSE IF StopLossBreached(current_price, entry_price, threshold)
                 THEN "True" ELSE "False"
    /\ UNCHANGED <<threshold, sl_args>>

----------------------------------------------------------------------------
(* PositionSizing.calculate_trade_size                                     *)

\* bot.py:213  PositionSizing(0.01, 0.1)
bot_risk_per_trade == 1
bot_sizing_max_drawdown == 10

SizingFractions == {0, 1, 10, 20}
SizingBalances == {0 - 100, 0, 100, 200, 500}
SizingStops == {0, 90, 100, 150, 490}

\* risk_management.py:100-102
PS_New(rpt, mdd) ==
    /\ risk_per_trade = rpt
    /\ sizing_max_drawdown = mdd

PS_Idle ==
    /\ PS_New(bot_risk_per_trade, bot_sizing_max_drawdown)
    /\ ps_args = <<0, 0>>
    /\ ps_result = [status |-> "none", size |-> <<0, 1>>]

\* the smaller of two quotients, the first when they are equal (Python's min)
RatMin(q, r) == IF RatLeq(q, r) THEN q ELSE r

\* Mutant: the cap is not applied.
CappedSize_NoCap(trade_size, cap) == trade_size

\* risk_management.py:117  min(trade_size, account_balance * self.max_drawdown)
CappedSize(trade_size, cap) == RatMin(trade_size, cap)

\* risk_management.py:115-116  risk_amount / (account_balance - stop_loss_price),
\* defined when the divisor is not 0
UncappedSize(balance, stop_loss_price, rpt) ==
    LET risk_amount == RatMul(<<balance, 1>>, Pct(rpt))
    IN RatDiv(risk_amount, RatSub(<<balance, 1>>, stop_loss_price))

\* risk_management.py:117  account_balance * self.max_drawdown
SizeCap(balance, mdd) == <<balance * mdd, 100>>

\* risk_management.py:115-117, the stop-loss price a quotient;
\* "ZeroDivisionError" when the divisor is 0
TradeSize(balance, stop_loss_price, rpt, mdd) ==
    IF RatEq(<<balance, 1>>, stop_loss_price)
    THEN [status |-> "ZeroDivisionError", size |-> <<0, 1>>]
    ELSE [status |-> "value",
          size |-> CappedSize(UncappedSize(balance, stop_loss_price, rpt),
                              SizeCap(balance, mdd))]

\* risk_management.py:104-117
calculate_trade_size ==
    /\ ps_result.status = "none"
    /\ ps_result' = TradeSize(ps_args[1], <<ps_args[2], 1>>,
                              risk_per_trade, sizing_max_drawdown)
    /\ UNCHANGED <<risk_per_trade, sizing_max_drawdown, ps_args>>

----------------------------------------------------------------------------
(* Indicators and the signal evaluator                                     *)

\* numpy's nan (the mean of no prices): a quotient with divisor 0; every
\* comparison with it is False
NaN == <<0, 0>>

IsNaN(q) == q[2] = 0

\* Python's  a > b  on floats
FloatGt(a, b) == IF IsNaN(a) \/ IsNaN(b) THEN FALSE ELSE RatLt(b, a)

RECURSIVE SeqSum(_)
SeqSum(s) == IF s = <<>> THEN 0 ELSE s[1] + SeqSum(Tail(s))

\* prices[-window:].  For window = 0 the slice is prices[0:], the whole list;
\* for window < 0 it is prices[k:] with k = -window.
LastN(prices, window) ==
    IF window > 0
    THEN SubSeq(prices, Max(1, Len(prices) - window + 1), Len(prices))
    ELSE SubSeq(prices, 1 - window, Len(prices))

\* np.mean / statistics.mean
Mean(s) == IF s = <<>> THEN NaN ELSE Norm(<<SeqSum(s), Len(s)>>)

\* risk_management.py:288  np.mean(prices[-window:])
calculate_moving_average(prices, window) == Mean(LastN(prices, window))

\* Mutant: a weighted mean of the last window prices, later prices weighing more.
calculate_ema_Weighted(prices, window_size) ==
    LET w == LastN(prices, window_size)
    IN IF w = <<>> THEN NaN
       ELSE Norm(<<SeqSum([i \in 1..Len(w) |-> i * w[i]]),
                   SeqSum([i \in 1..Len(w) |-> i])>>)

\* market_analysis.py:137-138: the same rolling mean
calculate_ema(prices, window_size) == calculate_moving_average(prices, window_size)

\* risk_management.py:146  TrendAnalysis.is_above_moving_average
is_above_moving_average(current_price, avg_price) ==
    FloatGt(<<current_price, 1>>, avg_price)

\* risk_management.py:166  current_price > avg_price + deviation_factor * std_dev,
\* deviation_factor = 1.5
is_above_standard_deviation(current_price, avg_price, price_std_dev) ==
    IF IsNaN(avg_price) THEN FALSE
    ELSE FloatGt(<<current_price, 1>>,
                 RatAdd(avg_price, RatMul(<<15, 10>>, <<price_std_dev, 1>>)))

\* np.diff(prices)
Deltas(prices) ==
    IF Len(prices) < 2 THEN <<>>
    ELSE [i \in 1..(Len(prices) - 1) |-> prices[i + 1] - prices[i]]

IsPositive(d) == d > 0
IsNegative(d) == d < 0

\* Mutant: the offset is lost to operator precedence, 100 - (100 / 1 + rs).
RsiOf_Precedence(rs) == RatSub(<<100, 1>>, RatAdd(<<100, 1>>, rs))

\* risk_management.py:203  rsi = 100 - (100 / (1 + rs)), for a finite rs >= 0
RsiOf(rs) == RatSub(<<100, 1>>, RatDiv(<<100, 1>>, RatAdd(<<1, 1>>, rs)))

\* Mutant: rs = 0 when there is no loss, so that rsi = 100 - 100 / 1.
RsiNoLoss_Zero(avg_gain) == <<0, 1>>

\* risk_management.py:202-203  rs = float('inf') when avg_loss = 0, and then
\* rsi = 100 - 100 / (1 + inf) = 100 - 0.0, whatever avg_gain is
RsiNoLoss(avg_gain) == <<100, 1>>

\* risk_management.py:197-204
calculate_rsi(prices) ==
    LET deltas == Deltas(prices)
        positive_deltas == SelectSeq(deltas, IsPositive)
        negative_deltas == SelectSeq(deltas, IsNegative)
        avg_gain == IF Len(positive_deltas) > 0 THEN Mean(positive_deltas) ELSE <<0, 1>>
        avg_loss == IF Len(negative_deltas) > 0
                    THEN <<Abs(Mean(negative_deltas)[1]), Mean(negative_deltas)[2]>>
                    ELSE <<0, 1>>
    IN IF avg_loss[1] = 0 THEN RsiNoLoss(avg_gain)
       ELSE RsiOf(RatDiv(avg_gain, avg_loss))

\* risk_management.py:183-184, threshold = 30
is_oversold(prices) == RatLeq(calculate_rsi(prices), <<30, 1>>)

\* risk_management.py:224  max(prices)
calculate_resistance_level(prices) == SeqMax(prices)

\* Mutant: the four conditions are joined by `or`.
AllOf_Any(a, b, c, d) == a \/ b \/ c \/ d

\* bot.py:297-300 and 321-324: the four conditions joined by `and`
AllOf(a, b, c, d) == a /\ b /\ c /\ d

\* bot.py:294-302.  `and` evaluates left to right and stops at the first False.
should_buy(prices, current_price) ==
    LET moving_average == calculate_ema(prices, 50)
    IN IF FloatGt(<<current_price, 1>>, moving_average)
       THEN AllOf(is_above_moving_average(current_price, <<100, 1>>),
                  is_above_standard_deviation(current_price, moving_average, 10),
                  is_oversold(prices),
                  calculate_resistance_level(<<100, 200, 150>>) > 200)
       ELSE FALSE

\* bot.py:318-326
should_sell(prices, current_price) ==
    LET moving_average == calculate_ema(prices, 30)
    IN IF FloatGt(moving_average, <<current_price, 1>>)
       THEN AllOf(is_above_moving_average(current_price, moving_average),
                  is_above_standard_deviation(current_price, moving_average, 10),
                  ~ is_oversold(prices),
                  calculate_resistance_level(<<100, 200, 150>>) > 200)
       ELSE FALSE

\* the price histories the market data provider may return for a symbol
Histories == { <<>>, <<100>>, <<90, 100, 110>>, <<110, 120, 90, 95>> }

\* every list of at most MaxHistory prices, the empty, the single-element and
\* the constant ones included
MaxHistory == 3
HistoryPrices == {90, 100, 110}
PriceLists == UNION { [1..n -> HistoryPrices] : n \in 0..MaxHistory }

\* a history longer than the window of should_sell (30) and shorter than that
\* of should_buy (50): one price of 0, then thirty of 200
LongHistory == [i \in 1..31 |-> IF i = 1 THEN 0 ELSE 200]

\* what get_token_prices(token) may give: a list of prices, None for a token
\* it has no history of, or a KeyError for a token it does not know
TokenHistories ==
    { [kind |-> "list", values |-> v] : v \in PriceLists \cup {LongHistory} }
    \cup { [kind |-> "None", values |-> <<>>], [kind |-> "KeyError", values |-> <<>>] }

\* the current_price a caller may pass
SignalPrices == {0 - 5, 0, 95, 105, 195}

\* market_analysis.py:137-141: calculate_ema returns the mean, or [] when
\* computing it raised (None[-window:] raises TypeError)
EmaOutcome(h, window_size) ==
    IF h.kind = "None" THEN "empty_list" ELSE "float"

\* bot.py:283-305, the whole call.  A KeyError of get_token_prices is caught
\* (bot.py:303-305); current_price > [] raises TypeError (bot.py:296), which
\* the except clause does not name.
should_buy_call(h, current_price) ==
    IF h.kind = "KeyError" THEN "False"
    ELSE IF EmaOutcome(h, 50) = "empty_list" THEN "TypeError"
    ELSE IF should_buy(h.values, current_price) THEN "True" ELSE "False"

\* bot.py:307-329, the whole call
should_sell_call(h, current_price) ==
    IF h.kind = "KeyError" THEN "False"
    ELSE IF EmaOutcome(h, 30) = "empty_list" THEN "TypeError"
    ELSE IF should_sell(h.values, current_price) THEN "True" ELSE "False"

\* np.std(prices[-window:]) squared: the mean of the squares less the square
\* of the mean; nan for no prices
Variance(s) ==
    IF s = <<>> THEN NaN
    ELSE Norm(<<Len(s) * SeqSum([i \in 1..Len(s) |-> s[i] * s[i]])
                  - SeqSum(s) * SeqSum(s),
                Len(s) * Len(s)>>)

\* a pair (upper, lower) = (sma + n * std, sma - n * std), held by sma, n and
\* std squared; it is (0.0, 0.0) exactly when sma = 0 and std = 0
Bands(sma, num_std_dev, variance) ==
    [sma |-> sma, num_std_dev |-> num_std_dev, variance |-> variance]

\* market_analysis.py:180  return 0.0, 0.0
SentinelBands == Bands(<<0, 1>>, 2, <<0, 1>>)

\* Mutant: only the empty history counts as insufficient.
InsufficientData_Empty(prices, window_size) == Len(prices) = 0

\* market_analysis.py:179  len(prices) < window_size
InsufficientData(prices, window_size) == Len(prices) < window_size

\* market_analysis.py:178-188, num_std_dev = 2.  No statement of the body
\* raises on a list of numbers.
calculate_bollinger_bands(prices, window_size) ==
    IF InsufficientData(prices, window_size) THEN SentinelBands
    ELSE Bands(calculate_moving_average(prices, window_size), 2,
               Variance(LastN(prices, window_size)))

\* the window a caller may pass
Windows == {0 - 1, 0, 1, 2, 20}

NoCall == [op |-> "none", history |-> [kind |-> "list", values |-> <<>>],
           current_price |-> 0, buy |-> "none", sell |-> "none", rsi |-> <<0, 1>>,
           window |-> 0, sma |-> <<0, 1>>, ema |-> <<0, 1>>, bands |-> SentinelBands]

Ind_Idle == ind_call = NoCall

\* should_buy and should_sell called for the same token and current price
evaluate_signals(h, current_price) ==
    /\ ind_call.op = "none"
    /\ ind_call' = [NoCall EXCEPT !.op = "signals", !.history = h,
                                  !.current_price = current_price,
                                  !.buy = should_buy_call(h, current_price),
                                  !.sell = should_sell_call(h, current_price)]

\* RSIAnalysis.calculate_rsi called on a list of prices
rsi_call(prices) ==
    /\ ind_call.op = "none"
    /\ ind_call' = [NoCall EXCEPT !.op = "calculate_rsi",
                                  !.history = [kind |-> "list", values |-> prices],
                                  !.rsi = calculate_rsi(prices)]

\* MovingAverage.calculate_moving_average and MarketAnalysisTools.calculate_ema
\* called on the same list of prices and window
moving_average_call(prices, window) ==
    /\ ind_call.op = "none"
    /\ ind_call' = [NoCall EXCEPT !.op = "calculate_moving_average",
                                  !.history = [kind |-> "list", values |-> prices],
                                  !.window = window,
                                  !.sma = calculate_moving_average(prices, window),
                                  !.ema = calculate_ema(prices, window)]

\* MarketAnalysisTools.calculate_bollinger_bands called on a list of prices
bollinger_call(prices, window_size) ==
    /\ ind_call.op = "none"
    /\ ind_call' = [NoCall EXCEPT !.op = "calculate_bollinger_bands",
                                  !.history = [kind |-> "list", values |-> prices],
                                  !.window = window_size,
                                  !.bands = calculate_bollinger_bands(prices, window_size)]

----------------------------------------------------------------------------
(* BreadBot                                                                *)
(*                                                                         *)
(* One exchange is configured (config/settings.py:57-65), so a (symbol,    *)
(* venue) pair of the loop of start_trading is a symbol.  The bot reads    *)
(* three collaborators whose code is not in the repository: risk_manager   *)
(* (bot.py:211-212), get_token_prices (bot.py:295) and                      *)
(* exchange_api.execute_order (bot.py:218); they are the configuration,    *)
(* the market data provider and the execution sink of the specification.   *)

NumSymbols == 2
MaxOrders == 2
MaxDirectCalls == 2

Symbols == 1..NumSymbols

\* self.risk_manager.stop_loss_ratio / profit_take_ratio, in percent
risk_manager == [stop_loss_ratio |-> 5, profit_take_ratio |-> 10]

\* what self.wallets[exchange] may be: no entry, a dict without "balance",
\* a dict with "balance" and "address", or a number
WalletValues ==
    { [kind |-> "absent", balance |-> 0],
      [kind |-> "dict_no_balance", balance |-> 0],
      [kind |-> "dict", balance |-> 0],
      [kind |-> "dict", balance |-> 1000],
      [kind |-> "float", balance |-> 99],
      [kind |-> "float", balance |-> 1000] }

\* get_token_price: the venue's price, 0 when the fetch fails (bot.py:156,159)
ObservedPrices == {0 - 5, 0, 90, 100, 110}

\* check_balance: the venue's balance, 0 when the fetch fails (bot.py:132,135)
VenueBalances == {0, 100, 500}

\* web3.eth.getBalance(address) (bot.py:233)
ReportedBalances == {79000, 80000, 100000, 110000}

\* random.uniform(0.1, 0.5) (bot.py:186,192), in percent
UniformFactors == {10, 50}

\* the execution sink: an order id, a failure value, or an exception
\* (exchange_api.py:77-82 raises Exception on every failure)
SinkOutcomes == {"filled", "failure", "raise"}

Flat == [state |-> "Flat", entry |-> 0, highest |-> 0]

NoCycle == [op |-> "none", symbol |-> 0, price |-> 0, outcome |-> "none",
            open_at_start |-> FALSE, entry |-> 0, highest |-> 0,
            trail_price |-> <<0, 1>>, submitted |-> 0,
            venue_balance |-> 0, buy_signal |-> FALSE, sell_signal |-> FALSE,
            margin_used |-> 0]

\* bot.py:38-87, with the configuration given
Bot_New(w, paper) ==
    /\ wallets = w
    /\ exchanges = [paper_trading |-> paper]
    /\ pc = "idle"
    /\ next_symbol = 1
    /\ orders = <<>>
    /\ position = [s \in Symbols |-> Flat]
    /\ last_cycle = NoCycle
    /\ calls = 0

Bot_Idle == Bot_New([kind |-> "absent", balance |-> 0], FALSE)

\* PositionState of the specification (4.3): the code keeps none; this is
\* the position the accepted orders and the observed prices imply.
Observe(pos, price) ==
    IF pos.state = "Open" THEN [pos EXCEPT !.highest = Max(@, price)] ELSE pos

Accept(pos, side, price) ==
    IF side = "buy"
    THEN IF pos.state = "Open" THEN pos
         ELSE [state |-> "Open", entry |-> price, highest |-> price]
    ELSE IF pos.state = "Open" THEN [pos EXCEPT !.state = "Closed"] ELSE pos

\* the orders and positions so far, and the exception in flight, if any
Book == [orders |-> orders, position |-> position, exc |-> "none"]

Raise(b, e) == [b EXCEPT !.exc = e]

\* bot.py:212,215: a TrailingStop made for this call alone is updated once
\* with the price of the call; defined for price >= 0
TrailPriceOf(price) ==
    <<StopPrice(NewHighest(NegInf, price), price, risk_manager.profit_take_ratio),
      100>>

\* Mutant: update_trailing_stop accepts every price.
PriceRejected_Never(price) == FALSE

\* risk_management.py:79-80: update_trailing_stop raises ValueError
PriceRejected(price) == price < 0

\* bot.py:200-219.  update_trailing_stop raises ValueError on a negative
\* price; wallets[exchange] * risk_per_trade raises TypeError unless the
\* wallet entry is a number; calculate_trade_size raises ZeroDivisionError.
\* `amount` is not read.
execute_order_on(b, order_type, symbol, amount, price, sink, origin) ==
    IF PriceRejected(price) THEN Raise(b, "ValueError")
    ELSE IF wallets.kind = "absent" THEN Raise(b, "KeyError")
    ELSE IF wallets.kind # "float" THEN Raise(b, "TypeError")
    ELSE LET trail_price == TrailPriceOf(price)
             trade_size == TradeSize(wallets.balance, trail_price,
                                     bot_risk_per_trade, bot_sizing_max_drawdown)
         IN IF trade_size.status # "value" THEN Raise(b, "ZeroDivisionError")
            ELSE [orders |-> Append(b.orders,
                       [side |-> order_type, symbol |-> symbol,
                        size |-> trade_size.size, amount |-> amount,
                        price |-> price, trail_price |-> trail_price,
                        origin |-> origin, result |-> sink]),
                  position |-> IF sink = "filled"
                               THEN [b.position EXCEPT
                                        ![symbol] = Accept(@, order_type, price)]
                               ELSE b.position,
                  exc |-> IF sink = "raise" THEN "Exception" ELSE "none"]

\* bot.py:184-188 and 190-194: one side of the live branch.  The coin is
\* random.random() < 0.5.
TradeSide(bs, order_type, signal, symbol, trade_amount, price, origin) ==
    UNION { IF b.exc # "none" THEN {b}
            ELSE {b} \cup
                 (IF signal
                  THEN { execute_order_on(b, order_type, symbol,
                             RatMul(trade_amount, Pct(f)), price, sink, origin) :
                         f \in UniformFactors, sink \in SinkOutcomes }
                  ELSE {}) : b \in bs }

\* bot.py:161-198: every book execute_trade can leave, given what the venue
\* reports and what the two signals return.  Only requests.RequestException
\* is caught (bot.py:197); every other exception propagates.
execute_trade_on(b, symbol, amount_to_trade, price, venue_balance, buy_signal, sell_signal, origin) ==
    IF exchanges.paper_trading THEN {b}
    ELSE LET trade_amount == RatMin(amount_to_trade, <<venue_balance, 1>>)
             seen == [b EXCEPT !.position[symbol] = Observe(@, price)]
         IN IF RatLt(<<0, 1>>, trade_amount)
            THEN IF price = 0 THEN {seen}
                 ELSE TradeSide(
                          TradeSide({seen}, "buy", buy_signal, symbol,
                                    trade_amount, price, origin),
                          "sell", sell_signal, symbol, trade_amount, price, origin)
            ELSE {seen}

\* what the call did, for the record
TradeOutcome(b, amount_to_trade, price, venue_balance) ==
    IF b.exc # "none" THEN b.exc
    ELSE IF exchanges.paper_trading THEN "paper"
    ELSE IF ~ RatLt(<<0, 1>>, RatMin(amount_to_trade, <<venue_balance, 1>>))
         THEN "skipped_balance"
    ELSE IF price = 0 THEN "skipped_price"
    ELSE "evaluated"

CycleRecord(op, symbol, price, outcome, trail_price, b) ==
    [op |-> op, symbol |-> symbol, price |-> price, outcome |-> outcome,
     open_at_start |-> position[symbol].state = "Open",
     entry |-> position[symbol].entry,
     highest |-> position[symbol].highest,
     trail_price |-> trail_price,
     submitted |-> Len(b.orders) - Len(orders),
     venue_balance |-> 0, buy_signal |-> FALSE, sell_signal |-> FALSE,
     margin_used |-> 0]

\* the signal rows a strategy may find in the venue's history of a symbol:
\* reversal_strategy.py:109-113 gives any of sell, buy, hold to each row;
\* momentum_strategy.py:74-76 alternates, a buy first
ReversalSignals == { <<>>, <<"buy">>, <<"sell">>, <<"sell", "buy">> }
MomentumSignals == { <<>>, <<"buy">>, <<"buy", "sell">> }

\* profit_target.py:56-58: entry and current price of a symbol
EntryPrices == {100}
CurrentPrices == {110, 200}

\* bot.py:78  ProfitTargetUtility(self.api_client, 100.0)
target_profit == 100

\* api_client.buy(symbol, 1) / api_client.sell(symbol, 1)
\* (reversal_strategy.py:123-129, momentum_strategy.py:83-89)
StrategyOrder(side, symbol, price, origin) ==
    [side |-> side, symbol |-> symbol, size |-> <<1, 1>>, amount |-> <<1, 1>>,
     price |-> price, trail_price |-> <<0, 1>>, origin |-> origin,
     result |-> "filled"]

StrategyOrders(signals, symbol, origin) ==
    [i \in 1..Len(signals) |-> StrategyOrder(signals[i], symbol, 0, origin)]

\* the loop `for symbol in self.symbols` of a strategy, and the next strategy
\* after its last symbol
NextIn(strategy, after) ==
    IF next_symbol < NumSymbols
    THEN /\ pc' = strategy
         /\ next_symbol' = next_symbol + 1
    ELSE /\ pc' = after
         /\ next_symbol' = 1

\* bot.py:221-225: the call
start_trading ==
    /\ pc = "idle"
    /\ pc' = "loop"
    /\ next_symbol' = 1
    /\ UNCHANGED <<ermVars, wallets, exchanges, orders, position, last_cycle, calls>>

\* Mutant: the halt leaves the pair loop only, and the strategies still run.
AfterDrawdownCheck_Break(ok) ==
    IF ok
    THEN NextIn("loop", "reversal")
    ELSE pc' = "reversal" /\ next_symbol' = 1

\* bot.py:234-237: return when check_drawdown reports halt, else the next pair
AfterDrawdownCheck(ok) ==
    IF ok
    THEN NextIn("loop", "reversal")
    ELSE pc' = "halted" /\ UNCHANGED next_symbol

\* bot.py:233-234: update_balance, then check_drawdown
UpdateAndCheck(new_balance) ==
    LET hwm == NewHighWaterMark(high_water_mark, new_balance)
        drawdown == DrawdownRead(hwm, new_balance)
    IN /\ account_balance' = new_balance
       /\ high_water_mark' = hwm
       /\ supplied' = Append(supplied, new_balance)
       /\ last_check' = [at |-> Len(supplied) + 1,
                         drawdown |-> drawdown,
                         ok |-> WithinLimit(drawdown)]
       /\ AfterDrawdownCheck(WithinLimit(drawdown))

\* bot.py:226-241: one pair of the loop.  `"balance" in exchange_wallet`
\* raises TypeError when the wallet entry is a number.
start_trading_pair ==
    /\ pc = "loop"
    /\ IF wallets.kind \in {"absent", "dict_no_balance"}
       THEN /\ NextIn("loop", "reversal")
            /\ UNCHANGED <<ermVars, orders, position, last_cycle>>
       ELSE IF wallets.kind = "float"
       THEN /\ pc' = "crashed"
            /\ UNCHANGED <<ermVars, next_symbol, orders, position, last_cycle>>
       ELSE \E price \in ObservedPrices, venue_balance \in VenueBalances,
               prices \in Histories :
            LET amount_to_trade == RatMul(<<wallets.balance, 1>>, Pct(20))
            IN \E b \in execute_trade_on(Book, next_symbol, amount_to_trade,
                            price, venue_balance,
                            should_buy(prices, price), should_sell(prices, price),
                            "start_trading") :
                 /\ orders' = b.orders
                 /\ position' = b.position
                 /\ last_cycle' = CycleRecord("execute_trade", next_symbol, price,
                        TradeOutcome(b, amount_to_trade, price, venue_balance),
                        <<0, 1>>, b)
                 /\ IF b.exc # "none"
                    THEN /\ pc' = "crashed"
                         /\ UNCHANGED <<ermVars, next_symbol>>
                    ELSE \E new_balance \in ReportedBalances :
                            UpdateAndCheck(new_balance)
    /\ UNCHANGED <<wallets, exchanges, calls>>

\* reversal_strategy.py:131-139, one symbol
reversal_strategy ==
    /\ pc = "reversal"
    /\ \E signals \in ReversalSignals :
         /\ Len(orders) + Len(signals) <= MaxOrders
         /\ orders' = orders \o StrategyOrders(signals, next_symbol, "reversal")
    /\ NextIn("reversal", "momentum")
    /\ UNCHANGED <<ermVars, wallets, exchanges, position, last_cycle, calls>>

\* momentum_strategy.py:95-103, one symbol
momentum_strategy ==
    /\ pc = "momentum"
    /\ \E signals \in MomentumSignals :
         /\ Len(orders) + Len(signals) <= MaxOrders
         /\ orders' = orders \o StrategyOrders(signals, next_symbol, "momentum")
    /\ NextIn("momentum", "profit_target")
    /\ UNCHANGED <<ermVars, wallets, exchanges, position, last_cycle, calls>>

\* profit_target.py:27-39  current_price >= entry_price * (1 + target_profit / 100)
check_profit_target(current_price, entry_price) ==
    current_price * 100 >= entry_price * (100 + target_profit)

\* profit_target.py:53-62, one symbol
profit_target_strategy ==
    /\ pc = "profit_target"
    /\ \E entry_price \in EntryPrices, current_price \in CurrentPrices :
         IF check_profit_target(current_price, entry_price)
         THEN /\ Len(orders) < MaxOrders
              /\ orders' = Append(orders,
                     StrategyOrder("sell", next_symbol, current_price, "profit_target"))
         ELSE UNCHANGED orders
    /\ NextIn("profit_target", "returned")
    /\ UNCHANGED <<ermVars, wallets, exchanges, position, last_cycle, calls>>

\* bot.py:200-219, called on the bot from outside start_trading
execute_order(order_type, symbol, price, sink) ==
    /\ pc = "idle"
    /\ calls < MaxDirectCalls
    /\ LET b == execute_order_on(Book, order_type, symbol, <<10, 1>>, price,
                                 sink, "direct")
       IN /\ orders' = b.orders
          /\ position' = b.position
          /\ last_cycle' = CycleRecord("execute_order", symbol, price,
                 IF b.exc # "none" THEN b.exc ELSE "submitted",
                 IF price >= 0 THEN TrailPriceOf(price) ELSE <<0, 1>>, b)
    /\ calls' = calls + 1
    /\ UNCHANGED <<ermVars, wallets, exchanges, pc, next_symbol>>

\* bot.py:161-198, called on the bot from outside start_trading
\* (backtest_strategy, bot.py:272,275)
execute_trade(symbol, amount_to_trade, price, venue_balance, prices) ==
    /\ pc = "idle"
    /\ calls < MaxDirectCalls
    /\ \E b \in execute_trade_on(Book, symbol, amount_to_trade, price,
                    venue_balance,
                    should_buy(prices, price), should_sell(prices, price),
                    "direct") :
         /\ orders' = b.orders
         /\ position' = b.position
         /\ last_cycle' = CycleRecord("execute_trade", symbol, price,
                TradeOutcome(b, amount_to_trade, price, venue_balance),
                <<0, 1>>, b)
    /\ calls' = calls + 1
    /\ UNCHANGED <<ermVars, wallets, exchanges, pc, next_symbol>>

\* bot.py:72  MarginManagement(max_leverage=5.0, margin_ratio=0.2), in percent
margin_ratio == 20

\* the margin in use for the open positions, as the venue reports it
MarginsUsed == {0, 500}

\* decision cycles with the signals given
MaxDecisions == 1
DecisionPrices == {0 - 5, 0, 110, 1111}
DecisionBalances == {0, 500}
DecisionWallets ==
    { [kind |-> "dict", balance |-> 1000],
      [kind |-> "float", balance |-> 99],
      [kind |-> "float", balance |-> 1000] }

\* risk_management.py:473-484  (margin_used / account_balance) >= margin_ratio,
\* for account_balance > 0
check_margin_call(balance, margin_used) ==
    RatLeq(Pct(margin_ratio), <<margin_used, balance>>)

\* bot.py:161-198 for each value should_buy and should_sell may return to it:
\* execute_trade reads the two signals at bot.py:185 and 191 and nothing else
\* of the evaluator.  margin_used is the state of the account during the
\* call; execute_trade does not read it.
execute_trade_given(symbol, amount_to_trade, price, venue_balance, buy_signal, sell_signal, margin_used) ==
    /\ pc = "idle"
    /\ calls < MaxDecisions
    /\ \E b \in execute_trade_on(Book, symbol, amount_to_trade, price,
                    venue_balance, buy_signal, sell_signal, "direct") :
         /\ orders' = b.orders
         /\ position' = b.position
         /\ last_cycle' = [CycleRecord("execute_trade", symbol, price,
                               TradeOutcome(b, amount_to_trade, price, venue_balance),
                               <<0, 1>>, b)
                           EXCEPT !.venue_balance = venue_balance,
                                  !.buy_signal = buy_signal,
                                  !.sell_signal = sell_signal,
                                  !.margin_used = margin_used]
    /\ calls' = calls + 1
    /\ UNCHANGED <<ermVars, wallets, exchanges, pc, next_symbol>>

----------------------------------------------------------------------------
(* Specifications: one per object under study; the other objects stay     *)
(* as constructed.                                                         *)

ERM_Init == ERM_New /\ TS_Idle /\ SL_Idle /\ PS_Idle /\ Bot_Idle /\ Ind_Idle

ERM_Next ==
    \/ \E b \in Balances : update_balance(b) /\ UNCHANGED <<tsVars, slVars, psVars, botVars, indVars>>
    \/ check_drawdown /\ UNCHANGED <<tsVars, slVars, psVars, botVars, indVars>>

SpecERM == ERM_Init /\ [][ERM_Next]_vars

TS_Init ==
    /\ \E tp \in TrailPercents : TS_New(tp)
    /\ ERM_New /\ SL_Idle /\ PS_Idle /\ Bot_Idle /\ Ind_Idle

TS_Next ==
    \E p \in Prices : update_trailing_stop(p) /\ UNCHANGED <<ermVars, slVars, psVars, botVars, indVars>>

SpecTrailingStop == TS_Init /\ [][TS_Next]_vars

SL_Init ==
    /\ \E th \in Thresholds : SL_New(th)
    /\ sl_args \in StopLossPrices \X StopLossPrices
    /\ sl_result = "none"
    /\ ERM_New /\ TS_Idle /\ PS_Idle /\ Bot_Idle /\ Ind_Idle

SL_Next == check_stop_loss /\ UNCHANGED <<ermVars, tsVars, psVars, botVars, indVars>>

SpecStopLoss == SL_Init /\ [][SL_Next]_vars

PS_Init ==
    /\ \E rpt \in SizingFractions, mdd \in SizingFractions : PS_New(rpt, mdd)
    /\ ps_args \in SizingBalances \X SizingStops
    /\ ps_result = [status |-> "none", size |-> <<0, 1>>]
    /\ ERM_New /\ TS_Idle /\ SL_Idle /\ Bot_Idle /\ Ind_Idle

PS_Next == calculate_trade_size /\ UNCHANGED <<ermVars, tsVars, slVars, botVars, indVars>>

SpecSizing == PS_Init /\ [][PS_Next]_vars

Bot_Init ==
    /\ \E w \in WalletValues, paper \in BOOLEAN : Bot_New(w, paper)
    /\ ERM_New /\ TS_Idle /\ SL_Idle /\ PS_Idle /\ Ind_Idle

\* one run of start_trading
Next ==
    \/ start_trading /\ UNCHANGED <<tsVars, slVars, psVars, indVars>>
    \/ start_trading_pair /\ UNCHANGED <<tsVars, slVars, psVars, indVars>>
    \/ reversal_strategy /\ UNCHANGED <<tsVars, slVars, psVars, indVars>>
    \/ momentum_strategy /\ UNCHANGED <<tsVars, slVars, psVars, indVars>>
    \/ profit_target_strategy /\ UNCHANGED <<tsVars, slVars, psVars, indVars>>

Spec == Bot_Init /\ [][Next]_vars

\* decision cycles: execute_trade and execute_order called on the bot
Cycles_Next ==
    \/ \E order_type \in {"buy", "sell"}, symbol \in Symbols,
          price \in ObservedPrices, sink \in SinkOutcomes :
         execute_order(order_type, symbol, price, sink)
            /\ UNCHANGED <<tsVars, slVars, psVars, indVars>>
    \/ \E symbol \in Symbols, price \in ObservedPrices,
          venue_balance \in VenueBalances, prices \in Histories :
         execute_trade(symbol, <<200, 1>>, price, venue_balance, prices)
            /\ UNCHANGED <<tsVars, slVars, psVars, indVars>>

SpecCycles == Bot_Init /\ [][Cycles_Next]_vars

\* decision cycles for every answer of the signal evaluator
Decision_Init ==
    /\ \E w \in DecisionWallets, paper \in BOOLEAN : Bot_New(w, paper)
    /\ ERM_New /\ TS_Idle /\ SL_Idle /\ PS_Idle /\ Ind_Idle

Decision_Next ==
    \E symbol \in Symbols, price \in DecisionPrices,
       venue_balance \in DecisionBalances, buy_signal \in BOOLEAN,
       sell_signal \in BOOLEAN, margin_used \in MarginsUsed :
      execute_trade_given(symbol, <<200, 1>>, price, venue_balance,
                          buy_signal, sell_signal, margin_used)
         /\ UNCHANGED <<tsVars, slVars, psVars, indVars>>

SpecDecision == Decision_Init /\ [][Decision_Next]_vars

Signals_Init == Ind_Idle /\ ERM_New /\ TS_Idle /\ SL_Idle /\ PS_Idle /\ Bot_Idle

Signals_Next ==
    \/ \E h \in TokenHistories, current_price \in SignalPrices :
         evaluate_signals(h, current_price)
            /\ UNCHANGED <<ermVars, tsVars, slVars, psVars, botVars>>
    \/ \E prices \in PriceLists \cup {LongHistory} :
         rsi_call(prices)
            /\ UNCHANGED <<ermVars, tsVars, slVars, psVars, botVars>>
    \/ \E prices \in PriceLists \cup {LongHistory}, window \in Windows :
         moving_average_call(prices, window)
            /\ UNCHANGED <<ermVars, tsVars, slVars, psVars, botVars>>
    \/ \E prices \in PriceLists \cup {LongHistory}, window_size \in Windows :
         bollinger_call(prices, window_size)
            /\ UNCHANGED <<ermVars, tsVars, slVars, psVars, botVars>>

SpecSignals == Signals_Init /\ [][Signals_Next]_vars

----------------------------------------------------------------------------
\* the last check_drawdown was made on the current fields
Checked == last_check.at = Len(supplied)

----------------------------------------------------------------------------
\* C1: check_drawdown reports halt (returns False) exactly when
\* (high_water_mark - account_balance) / high_water_mark is strictly greater
\* than max_drawdown; a drawdown equal to max_drawdown does not halt.
C1_HaltIffStrictlyGreater ==
    Checked =>
        ( (~ last_check.ok)
          <=> (high_water_mark - account_balance) * 100
                  > max_drawdown * high_water_mark )

\* the boundary: a drawdown of exactly 20% was checked and did not halt
C1_Witness ==
    /\ Checked
    /\ (high_water_mark - account_balance) * 100 = max_drawdown * high_water_mark
    /\ last_check.ok

\* C3: after any sequence of update_balance calls high_water_mark is the
\* maximum of the initial balance and every balance supplied so far.
C3_MarkIsRunningMax ==
    high_water_mark = SeqMax(<<initial_balance>> \o supplied)

\* a balance above the mark was supplied and then a lower one
C3_Witness ==
    /\ Len(supplied) >= 2
    /\ supplied[1] > initial_balance
    /\ supplied[2] < supplied[1]
    /\ high_water_mark = supplied[1]

\* C4: the drawdown check_drawdown evaluates is the one of the current
\* (high_water_mark, account_balance); after update_balance with 100000,
\* 90000, 95000 the mark stays 100000 and the drawdowns are 0, 0.10, 0.05.
C4_DrawdownNeverStale ==
    Checked =>
        /\ last_check.drawdown
              = <<high_water_mark - account_balance, high_water_mark>>
        /\ supplied = <<100000>>
              => high_water_mark = 100000 /\ RatEq(last_check.drawdown, <<0, 1>>)
        /\ supplied = <<100000, 90000>>
              => high_water_mark = 100000 /\ RatEq(last_check.drawdown, <<10, 100>>)
        /\ supplied = <<100000, 90000, 95000>>
              => high_water_mark = 100000 /\ RatEq(last_check.drawdown, <<5, 100>>)

C4_Witness ==
    /\ Checked
    /\ supplied = <<100000, 90000, 95000>>
    /\ RatEq(last_check.drawdown, <<5, 100>>)

\* C5: check_stop_loss(current_price, entry_price) returns True exactly when
\* current_price <= entry_price * (1 - threshold), for all non-negative
\* prices; with entry_price = 100 and threshold = 0.05 it is True at 95.0 and
\* every lower price and False at 95.01.
C5_StopLossAtOrBelow ==
    (sl_result # "none" /\ sl_args[1] >= 0 /\ sl_args[2] >= 0) =>
        /\ sl_result \in {"True", "False"}
        /\ sl_result = "True"
              <=> sl_args[1] * 100 <= sl_args[2] * (100 - threshold)
        /\ (threshold = 5 /\ sl_args[2] = 10000) =>
              /\ sl_args[1] <= 9500 => sl_result = "True"
              /\ sl_args[1] = 9501 => sl_result = "False"

\* entry 100.00, threshold 5%, price exactly 95.00: the stop triggers
C5_Witness ==
    /\ threshold = 5
    /\ sl_args = <<9500, 10000>>
    /\ sl_result = "True"

\* C7: over any sequence of update_trailing_stop calls with non-negative
\* prices highest_price never decreases from one call to the next, and the
\* stop each call returns is at most highest_price after that call.
C7_HighestMonotoneStopBelow ==
    [][ /\ highest_price' >= highest_price
        /\ (Len(ts_calls') > Len(ts_calls) /\ ~ ts_calls'[Len(ts_calls')].raised)
              => ts_calls'[Len(ts_calls')].stop <= 100 * highest_price' ]_vars

\* a price below the highest one was passed and the highest one was kept
C7_Witness ==
    /\ Len(ts_calls) >= 2
    /\ ts_calls[1].price = 110
    /\ ts_calls[2].price = 90
    /\ ~ ts_calls[2].raised
    /\ highest_price = 110

\* C8: the stop returned by update_trailing_stop ratchets: each returned stop
\* is at least the previously returned one; for trail_percent = 0.1 and
\* prices 100, 110, 90 the returned stops are 90, 99, 99.
C8_StopRatchets ==
    LET r == Returned(ts_calls)
    IN /\ \A i \in 1..(Len(r) - 1) : r[i + 1].stop >= r[i].stop
       /\ (trail_percent = 10 /\ Len(r) = 3
             /\ r[1].price = 100 /\ r[2].price = 110 /\ r[3].price = 90)
            => (r[1].stop = 9000 /\ r[2].stop = 9900 /\ r[3].stop = 9900)

C8_Witness ==
    /\ trail_percent = 10
    /\ Len(ts_calls) = 3
    /\ ts_calls[1].price = 100 /\ ts_calls[2].price = 110 /\ ts_calls[3].price = 90
    /\ ts_calls[3].stop = 9900

\* C10: calculate_trade_size never returns a value greater than
\* account_balance * max_drawdown, whenever it returns a value.
C10_SizeAtMostCap ==
    ps_result.status = "value" =>
        RatLeq(ps_result.size, <<ps_args[1] * sizing_max_drawdown, 100>>)

\* the risk-based size exceeded the cap and the cap was returned
C10_Witness ==
    /\ ps_result.status = "value"
    /\ ~ RatLeq(UncappedSize(ps_args[1], <<ps_args[2], 1>>, risk_per_trade),
                SizeCap(ps_args[1], sizing_max_drawdown))
    /\ ps_result.size = SizeCap(ps_args[1], sizing_max_drawdown)

IsBuy(o) == o.side = "buy"

\* the drawdown check after a pair of start_trading reported halt
HaltReported == last_check.at >= 1 /\ ~ last_check.ok

\* C2: once the drawdown check after a pair reports halt, no later pair is
\* processed and no further buy order is submitted by any part of the run,
\* the strategies after the pair loop included.
C2_HaltEndsRun ==
    [][ HaltReported =>
          /\ SelectSeq(orders', IsBuy) = SelectSeq(orders, IsBuy)
          /\ next_symbol' = next_symbol
          /\ last_cycle' = last_cycle
          /\ supplied' = supplied ]_vars

\* the balance fell from 100000 to 79000 after a pair that is not the last
C2_Witness ==
    /\ pc = "halted"
    /\ HaltReported
    /\ high_water_mark = 100000
    /\ account_balance = 79000
    /\ next_symbol < NumSymbols

\* C6: whenever the decision loop observes, for a position that is Open, a
\* price at or below entry_price * (1 - stop_threshold) or at or below
\* highest_price_since_entry * (1 - trail_percent), the position is Closed
\* at the end of that cycle, with no sell signal needed.
C6_StopClosesPosition ==
    ( /\ last_cycle.op = "execute_trade"
      /\ last_cycle.outcome = "evaluated"
      /\ last_cycle.open_at_start
      /\ last_cycle.entry > 0
      /\ last_cycle.price > 0
      /\ \/ last_cycle.price * 100
               <= last_cycle.entry * (100 - risk_manager.stop_loss_ratio)
         \/ last_cycle.price * 100
               <= Max(last_cycle.highest, last_cycle.price)
                    * (100 - risk_manager.profit_take_ratio) )
    => position[last_cycle.symbol].state = "Closed"

\* C9: the highest price seen since entry persists across decision cycles
\* while a position is open: the trailing stop computed in a later cycle is
\* the one of the maximum of all prices observed since entry.
C9_HighestPersists ==
    ( /\ last_cycle.op = "execute_order"
      /\ last_cycle.open_at_start
      /\ last_cycle.entry > 0
      /\ last_cycle.price > 0 )
    => RatEq(last_cycle.trail_price,
             <<Max(last_cycle.highest, last_cycle.price)
                  * (100 - risk_manager.profit_take_ratio), 100>>)

----------------------------------------------------------------------------
\* the orders the last call handed to the execution sink
SubmittedNow == SubSeq(orders, Len(orders) - last_cycle.submitted + 1, Len(orders))

IsSell(o) == o.side = "sell"

\* the last call was a live decision cycle on a wallet position sizing accepts
LiveCycle ==
    /\ last_cycle.op = "execute_trade"
    /\ ~ exchanges.paper_trading
    /\ wallets.kind = "float"

C15_NoOrderWithoutBalanceOrPrice ==
    ( /\ last_cycle.op = "execute_trade"
      /\ \/ last_cycle.venue_balance <= 0
         \/ last_cycle.price <= 0 )
    => last_cycle.submitted = 0

\* a negative price with funds and a buy signal: the cycle gets as far as
\* execute_order and yet no order is submitted
C15_Witness ==
    /\ LiveCycle
    /\ last_cycle.price < 0
    /\ last_cycle.venue_balance > 0
    /\ last_cycle.buy_signal
    /\ last_cycle.outcome = "ValueError"
    /\ last_cycle.submitted = 0

----------------------------------------------------------------------------
\* C17: should_buy and should_sell return a boolean for every token and
\* current price, and False when a sub-condition cannot be evaluated; no error
\* reaches the caller.
C17_SignalsAlwaysBoolean ==
    ind_call.op = "signals" =>
        /\ ind_call.buy \in {"True", "False"}
        /\ ind_call.sell \in {"True", "False"}
        /\ ind_call.history.kind # "list" =>
              (ind_call.buy = "False" /\ ind_call.sell = "False")

\* C18: for the same token, current price and price history should_buy and
\* should_sell are never both True.
C18_NeverBothSignals ==
    ind_call.op = "signals" =>
        ~ (ind_call.buy = "True" /\ ind_call.sell = "True")

\* the price lies between the two moving averages, so that the first test of
\* both evaluators passes, and neither signals
C18_Witness ==
    /\ ind_call.op = "signals"
    /\ ind_call.history = [kind |-> "list", values |-> LongHistory]
    /\ ind_call.current_price = 195
    /\ FloatGt(<<195, 1>>, calculate_ema(LongHistory, 50))
    /\ FloatGt(calculate_ema(LongHistory, 30), <<195, 1>>)
    /\ ind_call.buy = "False"
    /\ ind_call.sell = "False"

\* C19: calculate_rsi returns a value in [0, 100] for every finite sequence
\* of prices, the empty, single-element and constant ones included.
C19_RsiInRange ==
    ind_call.op = "calculate_rsi" =>
        /\ ~ IsNaN(ind_call.rsi)
        /\ RatLeq(<<0, 1>>, ind_call.rsi)
        /\ RatLeq(ind_call.rsi, <<100, 1>>)

\* gains and losses both occur and the value is strictly inside the range
C19_Witness ==
    /\ ind_call.op = "calculate_rsi"
    /\ ind_call.history.values = <<100, 110, 90>>
    /\ RatLt(<<0, 1>>, ind_call.rsi)
    /\ RatLt(ind_call.rsi, <<100, 1>>)

NoNegativeDelta(prices) == SelectSeq(Deltas(prices), IsNegative) = <<>>

\* C20: calculate_rsi returns exactly 100, with no division error, whenever
\* no period-over-period delta of the prices is negative (average loss 0).
C20_RsiHundredWithoutLoss ==
    (ind_call.op = "calculate_rsi" /\ NoNegativeDelta(ind_call.history.values))
        => ind_call.rsi = <<100, 1>>

\* rising prices: gains only
C20_Witness ==
    /\ ind_call.op = "calculate_rsi"
    /\ ind_call.history.values = <<90, 100, 110>>
    /\ ind_call.rsi = <<100, 1>>

----------------------------------------------------------------------------
\* C21: calculate_rsi returns 0, the insufficient-data sentinel, for every
\* price sequence with fewer than 2 prices.
C21_RsiZeroOnShortHistory ==
    (ind_call.op = "calculate_rsi" /\ Len(ind_call.history.values) < 2)
        => ind_call.rsi = <<0, 1>>

\* C22: calculate_moving_average returns the sentinel 0 and does not raise
\* for every price history with fewer than window prices, the empty one
\* included.
C22_SmaZeroOnShortHistory ==
    ( /\ ind_call.op = "calculate_moving_average"
      /\ Len(ind_call.history.values) < ind_call.window )
    => ind_call.sma = <<0, 1>>

\* C23: calculate_bollinger_bands returns the sentinel band (0, 0) and does
\* not raise for every price history with fewer than window_size prices.
C23_BandsSentinelOnShortHistory ==
    ( /\ ind_call.op = "calculate_bollinger_bands"
      /\ Len(ind_call.history.values) < ind_call.window )
    => ind_call.bands = SentinelBands

\* a history of three prices, none of them 0, against a window of 20
C23_Witness ==
    /\ ind_call.op = "calculate_bollinger_bands"
    /\ ind_call.history.values = <<90, 100, 110>>
    /\ ind_call.window = 20
    /\ ind_call.bands = SentinelBands

----------------------------------------------------------------------------
\* C25: for an EnhancedRiskManagement created with a positive balance, after
\* any sequence of update_balance calls high_water_mark >= account_balance
\* and high_water_mark > 0, so check_drawdown never divides by zero and the
\* drawdown it computes is never negative.
C25_MarkPositiveAndAbove ==
    /\ high_water_mark >= account_balance
    /\ high_water_mark > 0
    /\ ENABLED check_drawdown \/ Checked
    /\ Checked => ( /\ last_check.drawdown[2] > 0
                    /\ last_check.drawdown[1] >= 0 )

\* the balance fell to 0 and the drawdown was computed: 100000 / 100000
C25_Witness ==
    /\ Checked
    /\ account_balance = 0
    /\ high_water_mark = initial_balance
    /\ last_check.drawdown = <<initial_balance, initial_balance>>

C27_BuySignalSatisfiable ==
    ind_call.op = "signals" =>
        \E h \in TokenHistories, current_price \in SignalPrices :
            should_buy_call(h, current_price) = "True"

\* C28: calculate_trade_size returns a non-negative trade size for every
\* positive account_balance, every non-negative stop_loss_price different from
\* it, and non-negative risk_per_trade and max_drawdown, a stop_loss_price
\* greater than account_balance included.
C28_TradeSizeNonNegative ==
    ( /\ ps_result.status = "value"
      /\ ps_args[1] > 0
      /\ ps_args[2] >= 0
      /\ risk_per_trade >= 0
      /\ sizing_max_drawdown >= 0 ) =>
        RatLeq(<<0, 1>>, ps_result.size)

\* the highest price among the calls of cs that returned a stop; -inf if none
HighestReturned(cs) ==
    LET r == Returned(cs)
    IN IF r = <<>> THEN NegInf
       ELSE SeqMax([i \in 1..Len(r) |-> r[i].price])

\* C29: update_trailing_stop called with a negative price fails with an error
\* and leaves highest_price unchanged: highest_price is the highest price of
\* the calls that returned, and every returned stop is the one the calls that
\* returned before it give, as if the failed calls had not happened.
C29_FailedCallLeavesNoTrace ==
    /\ \A i \in 1..Len(ts_calls) : ts_calls[i].raised <=> ts_calls[i].price < 0
    /\ highest_price = HighestReturned(ts_calls)
    /\ \A i \in 1..Len(ts_calls) :
          ~ ts_calls[i].raised =>
              ts_calls[i].stop =
                  HighestReturned(SubSeq(ts_calls, 1, i)) * (100 - trail_percent)

\* a call with -5 failed between the calls with 110 and 90, and the stop of
\* the third call is that of 110
C29_Witness ==
    /\ trail_percent = 10
    /\ Len(ts_calls) = 3
    /\ ts_calls[1].price = 110 /\ ~ ts_calls[1].raised
    /\ ts_calls[2].price = 0 - 5 /\ ts_calls[2].raised
    /\ ts_calls[3].price = 90 /\ ts_calls[3].stop = 9900
    /\ highest_price = 110

====
